---- MODULE Spec2Model ----
(***************************************************************************)
(* The chat relay server of src/server/server.py with the wire codec of    *)
(* src/shared/message.py.  One thread per accepted connection runs         *)
(* Client.handle; all threads share ClientList.clients, a plain Python set *)
(* with no lock.  A step of the model is a stretch of one thread's code    *)
(* between two points where CPython may switch threads (a blocking socket  *)
(* call, a function entry, the back edge of a loop).                       *)
(***************************************************************************)
EXTENDS Integers, Sequences, FiniteSets, TLC

\* ---------------------------------------------------------------- bounds
NumSessions == 2          \* connections the listener accepts
MaxFrames == 2            \* inbound frames read by the server, all sessions
MaxResets == 1            \* connections the peer or the network breaks
NumDirSessions == 3       \* connections of the directory runs
NumJoined == 2            \* of these, the ones that have joined at the start

Sessions == 1 .. NumSessions

\* ------------------------------------------------- shared/message.py
CLIENT_TO_CLIENT == 1
CLIENT_TO_SERVER == 2
SERVER_TO_CLIENT == 3
CLIENT_LIST_UPDATE == 4
DISCONNECT_NOTIFICATION == 5
UPDATE_CLIENT_ALIAS == 6
GENERATED_CLIENT_UUID == 7

MessageTypeEnum == CLIENT_TO_CLIENT .. GENERATED_CLIENT_UUID

\* Python's None, as a value of its own beside the empty string.
None == "None"

\* str(uuid.uuid4()) of the c-th accepted connection; "u0" is an id that no
\* connection of the run owns.
UuidNames == <<"u1", "u2", "u3", "u4">>
UuidOf(c) == UuidNames[c]
UnknownUuid == "u0"

\* Python truthiness of an optional string: None and "" are falsy.
Falsy(s) == s = None \/ s = ""

\* Message.__init__: the four attributes.
Message(type, message, destination, from_) ==
    [message_type |-> type, message |-> message,
     destination |-> destination, from_ |-> from_]

\* A validation that wants both the destination and the origin.
validate_raises_either(m) ==
    \/ m.message_type \notin MessageTypeEnum
    \/ /\ m.message_type = CLIENT_TO_CLIENT
       /\ (Falsy(m.destination) \/ Falsy(m.from_))

\* Message.validate: TRUE when it raises ValueError.
validate_raises(m) ==
    \/ m.message_type \notin MessageTypeEnum
    \/ /\ m.message_type = CLIENT_TO_CLIENT
       /\ Falsy(m.destination)
       /\ Falsy(m.from_)

WireKeys == {"message_type", "message", "destination", "from"}

\* An encoding that leaves the origin out.
dump_drops_origin(m) ==
    [json |-> TRUE, keys |-> WireKeys, message_type |-> m.message_type,
     message |-> m.message, destination |-> m.destination, from |-> None]

\* Message.dump: the JSON object with its four keys, as bytes on the wire.
dump(m) ==
    [json |-> TRUE, keys |-> WireKeys, message_type |-> m.message_type,
     message |-> m.message, destination |-> m.destination, from |-> m.from_]

\* Message.decode: json.loads, the four subscripts, MessageTypeEnum(int(..)),
\* then Message.__init__ with its validate.  err names the exception raised.
decode(data) ==
    IF ~data.json THEN [err |-> "JSONDecodeError"]
    ELSE IF data.keys # WireKeys THEN [err |-> "KeyError"]
    ELSE IF data.message_type \notin MessageTypeEnum THEN [err |-> "ValueError"]
    ELSE LET m == Message(data.message_type, data.message,
                          data.destination, data.from)
         IN IF validate_raises(m) THEN [err |-> "ValueError"]
            ELSE [err |-> "ok", msg |-> m]

\* ------------------------------------------------------- inbound frames
Bodies == {"bob"}
DestValues == {None, UnknownUuid} \cup {UuidOf(c) : c \in Sessions}
FromValues == {None, UuidOf(1)}

Garbage == [json |-> FALSE, keys |-> {}, message_type |-> 0,
            message |-> "", destination |-> None, from |-> None]

\* What a peer may put on the wire in one read: bytes that are no JSON, an
\* object lacking a key, an unknown type code, and every envelope of a known
\* type.
Frames ==
    {Garbage}
    \cup {[dump(Message(CLIENT_TO_SERVER, "bob", None, None))
              EXCEPT !.keys = WireKeys \ {"from"}]}
    \cup {dump(Message(9, "bob", None, None))}
    \cup {dump(Message(CLIENT_TO_CLIENT, "bob", d, f)) :
              d \in DestValues, f \in FromValues}
    \cup {dump(Message(UPDATE_CLIENT_ALIAS, b, None, None)) : b \in Bodies}
    \cup {dump(Message(t, "bob", None, None)) :
              t \in {CLIENT_TO_SERVER, SERVER_TO_CLIENT, CLIENT_LIST_UPDATE,
                     DISCONNECT_NOTIFICATION, GENERATED_CLIENT_UUID}}

\* ---------------------------------------------------------------- state
VARIABLES
    pc,        \* where each connection's handler thread stands
    ret,       \* the caller update_clients returns to: "hs", "active", "closing"
    clients,   \* ClientList.clients
    alias,     \* Client.alias
    sock,      \* the connection: "none", "open", "reset" (I/O on it raises), "closed"
    out,       \* what socket.send has written to each connection, in order
    it,        \* the set iterator of the loop the thread is in
    slot,      \* the place of each Client object in the set's hash table
    client_list, \* update_clients' local list of dumps
    sending,   \* the connection whose socket.send the thread is inside, or 0
    cur,       \* handle's local message, while it is being routed
    nframes,   \* frames read so far
    during,    \* history: the registry contents that have existed since the
               \* thread's running update_clients call began
    arg,       \* the arguments of a Message(...) call made on its own
    res        \* what that call, and the decode of its dump, came to

vars == <<pc, ret, clients, alias, sock, out, it, slot, client_list, sending, cur, nframes,
          during, arg, res>>

\* The connections of the run.
Conns == DOMAIN pc

NoIter == [active |-> FALSE, size |-> 0, pos |-> 0]
NoMessage == Message(0, "", None, None)
NoArgs == [type |-> 0, message |-> "", destination |-> None, from_ |-> None]
NoResult == [op |-> "none", err |-> "ok", msg |-> NoMessage]

\* Client.dump (the address is fixed per connection and stands as its index).
ClientDump(c) == [uuid |-> UuidOf(c), alias |-> alias[c], address |-> c]

\* The listener is up and has accepted nothing.
InitServer ==
    /\ pc = [c \in Sessions |-> "idle"]
    /\ ret = [c \in Sessions |-> "hs"]
    /\ clients = {}
    /\ alias = [c \in Sessions |-> ""]
    /\ sock = [c \in Sessions |-> "none"]
    /\ out = [c \in Sessions |-> <<>>]
    /\ it = [c \in Sessions |-> NoIter]
    /\ slot = [c \in Sessions |-> 0]
    /\ client_list = [c \in Sessions |-> <<>>]
    /\ sending = [c \in Sessions |-> 0]
    /\ cur = [c \in Sessions |-> NoMessage]
    /\ nframes = 0
    /\ during = [c \in Sessions |-> {}]

Init ==
    /\ InitServer
    /\ arg = NoArgs
    /\ res = NoResult


\* ------------------------------------------------------ set iteration
\* A Python set iterator remembers the size the set had when it was made and
\* a cursor into the hash table; each next() raises RuntimeError when the
\* size differs, and otherwise yields the next member behind the cursor.  A
\* Client hashes by identity, so its slot is fixed for the run, and a member
\* put in before the cursor is skipped.  (The table is not resized below five
\* entries.)
NewIter == [active |-> TRUE, size |-> Cardinality(clients), pos |-> 0]
Iter(c) == IF it[c].active THEN it[c] ELSE NewIter
SizeChanged(i) == Cardinality(clients) # i.size
Ahead(i) == {x \in clients : slot[x] > i.pos}
Nexts(i) ==
    IF SizeChanged(i) THEN {}
    ELSE {x \in Ahead(i) : \A y \in Ahead(i) : slot[x] <= slot[y]}
CanStop(i) == ~SizeChanged(i) /\ Ahead(i) = {}
Visit(i, x) == [i EXCEPT !.pos = slot[x]]

\* ---------------------------------------------------- control transfer
\* Where an exception that leaves update_clients ends: handle's try/except
\* (lines 56-68) covers only the read loop, so one raised by the calls of
\* lines 53 and 71 ends the thread.
AfterRaise(r) == IF r = "active" THEN "cl_remove" ELSE "crashed"
\* A handler whose closing broadcast returns into the read loop.
AfterReturn_rejoins(r) == "recv"

\* Where update_clients returns to: the read loop, or the end of handle.
AfterReturn(r) == IF r = "closing" THEN "done" ELSE "recv"

\* socket.send on connection x raises when the connection is broken.
SendRaises(x) == sock[x] # "open"

\* The pc values inside update_clients.
UcPcs == {"uc_check", "uc_dump", "uc_iter", "uc_send"}

\* What the registry holds at one instant: its members, each with its alias.
RegistryContent == {ClientDump(x) : x \in clients}

\* The bookkeeping of a step: every thread that is inside update_clients
\* after it notes the registry content the step leaves, from the entry of
\* its call on.  No Message is built outside the handlers.
Record ==
    /\ during' = [c \in Conns |->
                    IF pc'[c] \in UcPcs
                    THEN (IF pc[c] \in UcPcs THEN during[c] ELSE {})
                         \cup {RegistryContent'}
                    ELSE {}]
    /\ UNCHANGED <<arg, res>>

\* ---------------------------------------------------------- Server.start
\* accept(), Client(...), Thread(target=client.handle).start(): the c-th
\* accepted connection.  The new object's identity fixes its hash, hence its
\* place in the table relative to the others.  The thread runs up to its
\* first socket.send.
Accept(c) ==
    /\ pc[c] = "idle"
    /\ \A d \in Conns : d < c => pc[d] # "idle"
    /\ pc' = [pc EXCEPT ![c] = "hs_send"]
    /\ sock' = [sock EXCEPT ![c] = "open"]
    /\ alias' = [alias EXCEPT ![c] = ""]
    /\ \E p \in Conns \ {slot[d] : d \in Conns} :
          slot' = [slot EXCEPT ![c] = p]
    /\ UNCHANGED <<ret, clients, out, it, client_list, sending, cur, nframes>>
    /\ Record

\* The environment: the peer resets the connection or the network drops it.
ConnReset(c) ==
    /\ sock[c] = "open"
    /\ Cardinality({d \in Conns : sock[d] = "reset"}) < MaxResets
    /\ sock' = [sock EXCEPT ![c] = "reset"]
    /\ UNCHANGED <<slot, pc, ret, clients, alias, out, it, client_list, sending, cur, nframes>>
    /\ Record

\* ---------------------------------------------------------- Client.handle
\* A handshake that goes on to add_client without having sent the uuid.
SendUuidSkipped(c) ==
    /\ pc[c] = "hs_send"
    /\ pc' = [pc EXCEPT ![c] = "hs_add"]
    /\ UNCHANGED <<slot, ret, clients, alias, sock, out, it, client_list, sending, cur, nframes>>
    /\ Record

\* Lines 46-50: the uuid message is sent; an exception ends the thread.
SendUuid(c) ==
    /\ pc[c] = "hs_send"
    /\ IF SendRaises(c)
       THEN /\ pc' = [pc EXCEPT ![c] = "crashed"]
            /\ out' = out
       ELSE /\ pc' = [pc EXCEPT ![c] = "hs_add"]
            /\ out' = [out EXCEPT ![c] = Append(@,
                         dump(Message(GENERATED_CLIENT_UUID, UuidOf(c), None, None)))]
    /\ UNCHANGED <<slot, ret, clients, alias, sock, it, client_list, sending, cur, nframes>>
    /\ Record

\* A registry whose add rebinds the set to the new client alone.
add_client_overwrites(c) == {c}

\* ClientList.add_client.
add_client(c) == clients \cup {c}

\* Line 52, then the call of update_clients of line 53.
AddClient(c) ==
    /\ pc[c] = "hs_add"
    /\ clients' = add_client(c)
    /\ pc' = [pc EXCEPT ![c] = "uc_check"]
    /\ ret' = [ret EXCEPT ![c] = "hs"]
    /\ UNCHANGED <<slot, alias, sock, out, it, client_list, sending, cur, nframes>>
    /\ Record

\* ------------------------------------------------ ClientList.update_clients
\* Lines 162-165: the emptiness test and the iterator of the comprehension.
UpdateClientsCheck(c) ==
    /\ pc[c] = "uc_check"
    /\ IF clients = {}
       THEN /\ pc' = [pc EXCEPT ![c] = AfterReturn(ret[c])]
            /\ UNCHANGED <<it, client_list>>
       ELSE /\ pc' = [pc EXCEPT ![c] = "uc_dump"]
            /\ it' = [it EXCEPT ![c] = NewIter]
            /\ client_list' = [client_list EXCEPT ![c] = <<>>]
    /\ UNCHANGED <<slot, ret, clients, alias, sock, out, sending, cur, nframes>>
    /\ Record

\* Line 165, one turn of the comprehension: next(), then client.dump().
UpdateClientsDump(c) ==
    /\ pc[c] = "uc_dump"
    /\ \/ /\ SizeChanged(it[c])
          /\ pc' = [pc EXCEPT ![c] = AfterRaise(ret[c])]
          /\ it' = [it EXCEPT ![c] = NoIter]
          /\ client_list' = [client_list EXCEPT ![c] = <<>>]
       \/ \E x \in Nexts(it[c]) :
             /\ it' = [it EXCEPT ![c] = Visit(it[c], x)]
             /\ client_list' = [client_list EXCEPT ![c] = Append(@, ClientDump(x))]
             /\ pc' = pc
       \/ /\ CanStop(it[c])
          /\ pc' = [pc EXCEPT ![c] = "uc_iter"]
          /\ it' = [it EXCEPT ![c] = NoIter]
          /\ client_list' = client_list
    /\ UNCHANGED <<slot, ret, clients, alias, sock, out, sending, cur, nframes>>
    /\ Record

\* Lines 166-170: the message is built, then one next() of the send loop.
UpdateClientsNext(c) ==
    /\ pc[c] = "uc_iter"
    /\ LET i == Iter(c) IN
       \/ /\ SizeChanged(i)
          /\ pc' = [pc EXCEPT ![c] = AfterRaise(ret[c])]
          /\ it' = [it EXCEPT ![c] = NoIter]
          /\ client_list' = [client_list EXCEPT ![c] = <<>>]
          /\ sending' = sending
       \/ \E x \in Nexts(i) :
             /\ it' = [it EXCEPT ![c] = Visit(i, x)]
             /\ sending' = [sending EXCEPT ![c] = x]
             /\ pc' = [pc EXCEPT ![c] = "uc_send"]
             /\ client_list' = client_list
       \/ /\ CanStop(i)
          /\ pc' = [pc EXCEPT ![c] = AfterReturn(ret[c])]
          /\ it' = [it EXCEPT ![c] = NoIter]
          /\ client_list' = [client_list EXCEPT ![c] = <<>>]
          /\ sending' = sending
    /\ UNCHANGED <<slot, ret, clients, alias, sock, out, cur, nframes>>
    /\ Record

\* Lines 171-175: client.socket.send(message.dump()); a failure is logged and
\* raised again, which leaves the loop and update_clients.
UpdateClientsSend(c) ==
    /\ pc[c] = "uc_send"
    /\ LET x == sending[c] IN
       IF SendRaises(x)
       THEN /\ pc' = [pc EXCEPT ![c] = AfterRaise(ret[c])]
            /\ it' = [it EXCEPT ![c] = NoIter]
            /\ client_list' = [client_list EXCEPT ![c] = <<>>]
            /\ out' = out
       ELSE /\ pc' = [pc EXCEPT ![c] = "uc_iter"]
            /\ out' = [out EXCEPT ![x] = Append(@,
                         dump(Message(CLIENT_LIST_UPDATE, client_list[c], None, None)))]
            /\ UNCHANGED <<it, client_list>>
    /\ sending' = [sending EXCEPT ![c] = 0]
    /\ UNCHANGED <<slot, ret, clients, alias, sock, cur, nframes>>
    /\ Record


\* ------------------------------------------------- Client.handle, the loop
\* A handler that ends the session on a type it has no branch for.
handle_message_rejects(c, m) ==
    IF m.message_type = CLIENT_TO_SERVER
    THEN [pc |-> "recv", alias |-> alias[c], cur |-> NoMessage, ret |-> ret[c]]
    ELSE IF m.message_type = UPDATE_CLIENT_ALIAS
    THEN [pc |-> "uc_check", alias |-> m.message, cur |-> NoMessage, ret |-> "active"]
    ELSE IF m.message_type = CLIENT_TO_CLIENT
    THEN IF Falsy(m.destination)
         THEN [pc |-> "cl_remove", alias |-> alias[c], cur |-> NoMessage, ret |-> ret[c]]
         ELSE [pc |-> "lk", alias |-> alias[c], cur |-> m, ret |-> ret[c]]
    ELSE [pc |-> "cl_remove", alias |-> alias[c], cur |-> NoMessage, ret |-> ret[c]]

\* A handler that treats a ClientToServer message as an alias update.
handle_message_applies(c, m) ==
    IF m.message_type \in {CLIENT_TO_SERVER, UPDATE_CLIENT_ALIAS}
    THEN [pc |-> "uc_check", alias |-> m.message, cur |-> NoMessage, ret |-> "active"]
    ELSE IF m.message_type = CLIENT_TO_CLIENT
    THEN IF Falsy(m.destination)
         THEN [pc |-> "cl_remove", alias |-> alias[c], cur |-> NoMessage, ret |-> ret[c]]
         ELSE [pc |-> "lk", alias |-> alias[c], cur |-> m, ret |-> ret[c]]
    ELSE [pc |-> "recv", alias |-> alias[c], cur |-> NoMessage, ret |-> ret[c]]

\* Client.handle_message with the message the loop hands it: the state it
\* leaves the thread in.  Routing goes on in get_by_uuid; send_to_destination
\* raises ValueError on a falsy destination.
handle_message(c, m) ==
    IF m.message_type = CLIENT_TO_SERVER
    THEN [pc |-> "recv", alias |-> alias[c], cur |-> NoMessage, ret |-> ret[c]]
    ELSE IF m.message_type = UPDATE_CLIENT_ALIAS
    THEN [pc |-> "uc_check", alias |-> m.message, cur |-> NoMessage, ret |-> "active"]
    ELSE IF m.message_type = CLIENT_TO_CLIENT
    THEN IF Falsy(m.destination)
         THEN [pc |-> "cl_remove", alias |-> alias[c], cur |-> NoMessage, ret |-> ret[c]]
         ELSE [pc |-> "lk", alias |-> alias[c], cur |-> m, ret |-> ret[c]]
    ELSE [pc |-> "recv", alias |-> alias[c], cur |-> NoMessage, ret |-> ret[c]]

\* Lines 57-68, one turn of the loop on the bytes data: parse_message raises
\* again what decode raised, and every exception, like the disconnect
\* notification, breaks out of the loop.
handle_data(c, data) ==
    LET r == decode(data) IN
    IF r.err # "ok"
    THEN [pc |-> "cl_remove", alias |-> alias[c], cur |-> NoMessage, ret |-> ret[c]]
    ELSE IF r.msg.message_type = DISCONNECT_NOTIFICATION
    THEN [pc |-> "cl_remove", alias |-> alias[c], cur |-> NoMessage, ret |-> ret[c]]
    ELSE handle_message(c, r.msg)

\* socket.recv: a broken connection raises (or yields b"", which does not
\* decode); otherwise the peer's next frame is read and handled.
RecvFrom(c, D) ==
    /\ pc[c] = "recv"
    /\ \/ /\ sock[c] # "open"
          /\ pc' = [pc EXCEPT ![c] = "cl_remove"]
          /\ UNCHANGED <<alias, cur, ret, nframes>>
       \/ /\ sock[c] = "open"
          /\ nframes < MaxFrames
          /\ \E data \in D :
                LET h == handle_data(c, data) IN
                /\ pc' = [pc EXCEPT ![c] = h.pc]
                /\ alias' = [alias EXCEPT ![c] = h.alias]
                /\ cur' = [cur EXCEPT ![c] = h.cur]
                /\ ret' = [ret EXCEPT ![c] = h.ret]
          /\ nframes' = nframes + 1
    /\ UNCHANGED <<slot, clients, sock, out, it, client_list, sending>>
    /\ Record

\* The read loop with a peer that may send any frame.
Recv(c) == RecvFrom(c, Frames)

\* ClientList.get_by_uuid (lines 134-138), one turn of its loop: RuntimeError
\* from next() and the ValueError of line 138 both end in handle's except.
GetByUuid(c) ==
    /\ pc[c] = "lk"
    /\ LET i == Iter(c) IN
       \/ /\ SizeChanged(i)
          /\ pc' = [pc EXCEPT ![c] = "cl_remove"]
          /\ it' = [it EXCEPT ![c] = NoIter]
          /\ cur' = [cur EXCEPT ![c] = NoMessage]
          /\ sending' = sending
       \/ \E x \in Nexts(i) :
             IF UuidOf(x) = cur[c].destination
             THEN /\ pc' = [pc EXCEPT ![c] = "dst_send"]
                  /\ sending' = [sending EXCEPT ![c] = x]
                  /\ it' = [it EXCEPT ![c] = NoIter]
                  /\ cur' = cur
             ELSE /\ it' = [it EXCEPT ![c] = Visit(i, x)]
                  /\ UNCHANGED <<pc, sending, cur>>
       \/ /\ CanStop(i)
          /\ pc' = [pc EXCEPT ![c] = "cl_remove"]
          /\ it' = [it EXCEPT ![c] = NoIter]
          /\ cur' = [cur EXCEPT ![c] = NoMessage]
          /\ sending' = sending
    /\ UNCHANGED <<slot, ret, clients, alias, sock, out, client_list, nframes>>
    /\ Record

\* Client.send_to_destination, line 117: the message is sent as it came.
SendToDestination(c) ==
    /\ pc[c] = "dst_send"
    /\ LET x == sending[c] IN
       IF SendRaises(x)
       THEN /\ pc' = [pc EXCEPT ![c] = "cl_remove"]
            /\ out' = out
       ELSE /\ pc' = [pc EXCEPT ![c] = "recv"]
            /\ out' = [out EXCEPT ![x] = Append(@, dump(cur[c]))]
    /\ sending' = [sending EXCEPT ![c] = 0]
    /\ cur' = [cur EXCEPT ![c] = NoMessage]
    /\ UNCHANGED <<slot, ret, clients, alias, sock, it, client_list, nframes>>
    /\ Record

\* ClientList.remove_client: set.remove raises KeyError for a member that is
\* not in the set, and takes it out otherwise.
remove_client_raises(c) == c \notin clients
remove_client(c) == clients \ {c}

\* Line 70, then the call of update_clients of line 71.  set.remove raises
\* KeyError for a member that is not there, which ends the thread.
RemoveClient(c) ==
    /\ pc[c] = "cl_remove"
    /\ IF ~remove_client_raises(c)
       THEN /\ clients' = remove_client(c)
            /\ pc' = [pc EXCEPT ![c] = "uc_check"]
            /\ ret' = [ret EXCEPT ![c] = "closing"]
       ELSE /\ pc' = [pc EXCEPT ![c] = "crashed"]
            /\ UNCHANGED <<clients, ret>>
    /\ UNCHANGED <<slot, alias, sock, out, it, client_list, sending, cur, nframes>>
    /\ Record

Next ==
    \E c \in Sessions :
        \/ Accept(c)
        \/ ConnReset(c)
        \/ SendUuid(c)
        \/ AddClient(c)
        \/ UpdateClientsCheck(c)
        \/ UpdateClientsDump(c)
        \/ UpdateClientsNext(c)
        \/ UpdateClientsSend(c)
        \/ Recv(c)
        \/ GetByUuid(c)
        \/ SendToDestination(c)
        \/ RemoveClient(c)

Spec == Init /\ [][Next]_vars

\* ------------------------------------------------------ the codec alone
\* The arguments of a Message(...) call: every type, the optional strings as
\* None, empty and set.
CodecBodies == {"", "bob"}
CodecStrings == {None, "", UuidOf(1)}
CodecArgs == [type : MessageTypeEnum, message : CodecBodies,
              destination : CodecStrings, from_ : CodecStrings]

\* Message.__init__: the attributes are set, then validate() runs.
new_Message(a) ==
    LET m == Message(a.type, a.message, a.destination, a.from_) IN
    IF validate_raises(m)
    THEN [op |-> "init", err |-> "ValueError", msg |-> NoMessage]
    ELSE [op |-> "init", err |-> "ok", msg |-> m]

InitCodec ==
    /\ InitServer
    /\ arg \in CodecArgs
    /\ res = NoResult

\* Message(type, message, destination, from_).
Construct ==
    /\ res.op = "none"
    /\ arg # NoArgs
    /\ res' = new_Message(arg)
    /\ UNCHANGED <<pc, ret, clients, alias, sock, out, it, slot, client_list,
                   sending, cur, nframes, during, arg>>

\* Message.decode(m.dump()) of the message just built.
RoundTrip ==
    /\ res.op = "init"
    /\ res.err = "ok"
    /\ res' = LET r == decode(dump(res.msg)) IN
              [op |-> "decode", err |-> r.err,
               msg |-> IF r.err = "ok" THEN r.msg ELSE NoMessage]
    /\ UNCHANGED <<pc, ret, clients, alias, sock, out, it, slot, client_list,
                   sending, cur, nframes, during, arg>>

NextCodec == Construct \/ RoundTrip

SpecCodec == InitCodec /\ [][NextCodec]_vars

\* --------------------------------------------- directory under alias updates
DirSessions == 1 .. NumDirSessions
Joined == {c \in DirSessions : c <= NumJoined}

\* The members of S in the order the set iterator yields them under sl.
InSlotOrder(S, sl) ==
    CHOOSE q \in [1 .. Cardinality(S) -> S] :
        \A i, j \in 1 .. Cardinality(S) : i < j => sl[q[i]] < sl[q[j]]

\* The directory frame of the handshake of connection k, the k-th to join.
JoinDirectory(k, sl) ==
    LET q == InSlotOrder(1 .. k, sl) IN
    dump(Message(CLIENT_LIST_UPDATE,
                 [i \in 1 .. k |-> [uuid |-> UuidOf(q[i]), alias |-> "", address |-> q[i]]],
                 None, None))

\* The first connections have joined one after the other and wait in their
\* read loops; the others are still to be accepted.
InitDir ==
    /\ pc = [c \in DirSessions |-> IF c \in Joined THEN "recv" ELSE "idle"]
    /\ ret = [c \in DirSessions |-> "hs"]
    /\ clients = Joined
    /\ alias = [c \in DirSessions |-> ""]
    /\ sock = [c \in DirSessions |-> IF c \in Joined THEN "open" ELSE "none"]
    /\ \E sl \in [Joined -> DirSessions] :
          /\ \A a, b \in Joined : a # b => sl[a] # sl[b]
          /\ slot = [c \in DirSessions |-> IF c \in Joined THEN sl[c] ELSE 0]
          /\ out = [c \in DirSessions |->
                      IF c \in Joined
                      THEN <<dump(Message(GENERATED_CLIENT_UUID, UuidOf(c), None, None))>>
                           \o [i \in 1 .. (Cardinality(Joined) - c + 1) |->
                                  JoinDirectory(c + i - 1, sl)]
                      ELSE <<>>]
    /\ it = [c \in DirSessions |-> NoIter]
    /\ client_list = [c \in DirSessions |-> <<>>]
    /\ sending = [c \in DirSessions |-> 0]
    /\ cur = [c \in DirSessions |-> NoMessage]
    /\ nframes = 0
    /\ during = [c \in DirSessions |-> {}]
    /\ arg = NoArgs
    /\ res = NoResult

\* The alias updates a peer may send.
AliasFrames == {data \in Frames : decode(data).err = "ok"
                                 /\ decode(data).msg.message_type = UPDATE_CLIENT_ALIAS}

\* The read loop with peers that send alias updates only.
RecvAlias(c) == RecvFrom(c, AliasFrames)

\* The threads are followed through the handshake, the read loop and the
\* broadcasts; one that has left its read loop is followed no further (its
\* closing path is Spec's).

NextDir ==
    \E c \in DirSessions :
        \/ Accept(c)
        \/ SendUuid(c)
        \/ AddClient(c)
        \/ UpdateClientsCheck(c)
        \/ UpdateClientsDump(c)
        \/ UpdateClientsNext(c)
        \/ UpdateClientsSend(c)
        \/ RecvAlias(c)

SpecDirectory == InitDir /\ [][NextDir]_vars

\* ------------------------------------- peers that send server-side types
\* The envelopes of the types handle_message has no branch for.
UnhandledFrames ==
    {data \in Frames :
        /\ decode(data).err = "ok"
        /\ decode(data).msg.message_type \in
              {SERVER_TO_CLIENT, CLIENT_LIST_UPDATE, GENERATED_CLIENT_UUID}}

\* The read loop with peers that send these and alias updates only.
RecvUnhandled(c) == RecvFrom(c, UnhandledFrames \cup AliasFrames)

NextUnhandled ==
    \E c \in Sessions :
        \/ Accept(c)
        \/ ConnReset(c)
        \/ SendUuid(c)
        \/ AddClient(c)
        \/ UpdateClientsCheck(c)
        \/ UpdateClientsDump(c)
        \/ UpdateClientsNext(c)
        \/ UpdateClientsSend(c)
        \/ RecvUnhandled(c)
        \/ RemoveClient(c)

SpecUnhandled == Init /\ [][NextUnhandled]_vars


\* ------------------------------------------------------------- phases
\* Inside the while loop of lines 55-68, whatever it has called.
Active(c) ==
    \/ pc[c] \in {"recv", "lk", "dst_send"}
    \/ pc[c] \in UcPcs /\ ret[c] = "active"
\* handle() has returned, or an exception has ended its thread.
Exited(c) == pc[c] \in {"done", "crashed"}
\* remove_client has run for c (line 70).
Departed(c) == ret[c] = "closing"
\* A thread that holds a live iterator over the set, or stands between the
\* two loops of update_clients.
InRegistryRead(c) ==
    \/ pc[c] \in {"uc_dump", "uc_iter", "uc_send"}
    \/ pc[c] = "lk" /\ it[c].active
\* The uuids a directory payload lists.
PayloadUuids(l) == {l[k].uuid : k \in DOMAIN l}

\* ------------------------------------------------------------- claims

\* C1: the registry holds the handle of every session that is in its Active
\* read loop and of no session whose handle() has exited, whatever made it
\* exit.
C1_RegistryIsActiveSessions ==
    \A c \in Sessions :
        /\ Active(c) => c \in clients
        /\ Exited(c) => c \notin clients

\* C2: when session a completes the send of a ClientToClient message to the
\* other registered session b its destination names, exactly that one frame is
\* appended to b's outbound stream, no other stream changes, and the frame's
\* from field is a's own uuid whatever the client supplied.
C2_RoutingStampsOrigin ==
    [][\A a \in Sessions :
          (/\ pc[a] = "dst_send"
           /\ pc'[a] # "dst_send"
           /\ sending[a] \in clients \ {a}
           /\ ~SendRaises(sending[a]))
          => LET b == sending[a] IN
             /\ out'[b] = Append(out[b],
                    dump(Message(CLIENT_TO_CLIENT, cur[a].message,
                                 UuidOf(b), UuidOf(a))))
             /\ \A x \in Sessions \ {b} : out'[x] = out[x]]_vars

\* C3: when the lookup of a ClientToClient destination ends without a match,
\* the message is dropped: nothing is written, the registry is unchanged, and
\* the sender is back at its next read, still registered.
C3_LostDestinationDropped ==
    [][\A a \in Sessions :
          (/\ pc[a] = "lk"
           /\ pc'[a] # "lk"
           /\ cur[a].destination \notin {UuidOf(x) : x \in clients}
           /\ CanStop(Iter(a)))
          => /\ pc'[a] = "recv"
             /\ out' = out
             /\ clients' = clients
             /\ a \in clients']_vars

\* The frames that fail to decode or to validate.
BadFrames == {data \in Frames : decode(data).err # "ok"}

\* C4: an Active session that reads one frame that fails to decode or to
\* validate drops the frame and goes on to its next read.
C4_BadFrameKeepsSession ==
    \A c \in Sessions :
        (pc[c] = "recv" /\ sock[c] = "open")
        => \A data \in BadFrames : handle_data(c, data).pc = "recv"

\* C5: within one update_clients call on an unchanged registry, a send that
\* fails while registered handles are still to be served does not end the
\* loop, and removes nothing from the registry.
C5_BroadcastFailureIsolated ==
    [][\A c \in Sessions :
          (/\ pc[c] = "uc_send"
           /\ pc'[c] # "uc_send"
           /\ SendRaises(sending[c])
           /\ ~SizeChanged(it[c])
           /\ Ahead(it[c]) # {})
          => /\ pc'[c] = "uc_iter"
             /\ clients' = clients]_vars

\* C6: a send that fails on connection x, made by the Active session y # x
\* while it forwards a direct message or broadcasts a directory, leaves y in
\* its Active loop.
C6_TransportErrorStaysLocal ==
    [][\A y \in Sessions :
          (/\ Active(y)
           /\ pc[y] \in {"uc_send", "dst_send"}
           /\ pc'[y] # pc[y]
           /\ sending[y] # y
           /\ SendRaises(sending[y]))
          => Active(y)']_vars

\* C7: no directory that is sent after session d was removed from the
\* registry lists d's uuid.
C7_NoDepartedInDirectory ==
    [][\A c \in Sessions :
          (/\ pc[c] = "uc_send"
           /\ pc'[c] = "uc_iter")
          => \A d \in Sessions :
                Departed(d) => UuidOf(d) \notin PayloadUuids(client_list[c])]_vars

\* C8: a session that got its uuid and has ended, whatever ended it, has been
\* taken out of the registry and has gone on to the directory broadcast of
\* line 71.
C8_DestroyedIsRemovedThenBroadcast ==
    \A c \in Sessions :
        (Exited(c) /\ out[c] # <<>>) => (c \notin clients /\ Departed(c))

\* C9: a session whose loop has exited after Closing has closed its
\* connection.
C9_ClosedOnExit ==
    \A c \in Sessions :
        (Exited(c) /\ Departed(c)) => sock[c] = "closed"

\* C10: no add or remove changes the registry while another thread is
\* part-way through iterating it.
C10_MutationExcludesIteration ==
    [][clients' # clients => \A c \in Sessions : ~InRegistryRead(c)]_vars


\* add_client has run for c (line 52): the thread is past it, and did not end
\* on the send of line 50.
Added(c) ==
    /\ pc[c] \notin {"idle", "hs_send", "hs_add"}
    /\ ~(pc[c] = "crashed" /\ out[c] = <<>>)
\* The connection a thread is inside socket.send of, or 0.
SendTarget(c) ==
    IF pc[c] = "hs_send" THEN c
    ELSE IF pc[c] \in {"uc_send", "dst_send"} THEN sending[c]
    ELSE 0

\* C11: the registry holds exactly the sessions that have completed their add
\* and not their remove, under distinct uuids: its snapshot has as many
\* entries as sessions joined and not departed, and no departed uuid.
C11_NoLostAddOrRemove ==
    LET joined == {c \in Sessions : Added(c) /\ ~Departed(c)} IN
    /\ clients = joined
    /\ Cardinality({ClientDump(x).uuid : x \in clients}) = Cardinality(joined)
    /\ \A d \in Sessions : Departed(d) => UuidOf(d) \notin {ClientDump(x).uuid : x \in clients}

\* A session has completed its disconnect and the others are still registered.
C11_Witness ==
    \E d \in Sessions :
        /\ pc[d] = "done"
        /\ Departed(d)
        /\ clients = {c \in Sessions : c # d}
        /\ clients # {}

\* C13: no two threads are inside socket.send on the same connection at the
\* same time.
C13_SendsSerialized ==
    \A a, b \in Sessions :
        (a # b /\ SendTarget(a) # 0) => SendTarget(a) # SendTarget(b)

\* C14: the first frame written to a connection is the AssignedId message
\* with the session's own, non-empty uuid, and a handle is in the registry
\* only once that frame has been written.
C14_AssignedIdFirst ==
    \A c \in Sessions :
        /\ out[c] # <<>> =>
              /\ out[c][1].message_type = GENERATED_CLIENT_UUID
              /\ out[c][1].message = UuidOf(c)
              /\ UuidOf(c) # ""
        /\ c \in clients => out[c] # <<>>

\* A connection has been sent a directory and a direct message after its uuid.
C14_Witness ==
    \E c \in Sessions :
        /\ Len(out[c]) >= 3
        /\ \E k \in 2 .. Len(out[c]) : out[c][k].message_type = CLIENT_LIST_UPDATE
        /\ \E k \in 2 .. Len(out[c]) : out[c][k].message_type = CLIENT_TO_CLIENT

\* C16: remove_client for a handle that has been removed already, and so is
\* not in the registry, does not raise and leaves the registry as it is.
C16_RemoveAbsentIsNoOp ==
    \A c \in Sessions :
        (Departed(c) /\ c \notin clients)
        => (~remove_client_raises(c) /\ remove_client(c) = clients)

\* A directory frame on the wire that lists uuid u under alias a.
ListsAlias(f, u, a) ==
    /\ f.message_type = CLIENT_LIST_UPDATE
    /\ \E k \in DOMAIN f.message : f.message[k].uuid = u /\ f.message[k].alias = a

\* C15: when the update_clients call that an alias update of session c
\* triggered is over, every registered handle whose connection is intact, c
\* included, has been sent a directory that lists c's uuid under the new
\* alias.
C15_AliasUpdateReachesAll ==
    [][\A c \in Sessions :
          (/\ pc[c] \in UcPcs
           /\ ret[c] = "active"
           /\ pc'[c] \notin UcPcs)
          => \A x \in clients' :
                sock'[x] = "open"
                => \E k \in DOMAIN out'[x] :
                      ListsAlias(out'[x][k], UuidOf(c), alias'[c])]_vars

\* C19: an update_clients call in which no send has failed does not fail: it
\* ends by returning to its caller, on an empty registry too, and not by an
\* exception.
C19_BroadcastCompletes ==
    [][\A c \in Sessions :
          (/\ pc[c] \in {"uc_check", "uc_dump", "uc_iter"}
           /\ pc'[c] \notin UcPcs)
          => /\ pc'[c] = AfterReturn(ret[c])
             /\ out' = out]_vars

\* The ClientToServer envelopes a peer may send.
ServerFrames == {data \in Frames : decode(data).err = "ok"
                                  /\ decode(data).msg.message_type = CLIENT_TO_SERVER}

\* C20: the read of a ClientToServer frame by an Active session leaves the
\* registry, every alias and every outbound stream as they were, and the
\* session at its next read.
C20_ClientToServerNoEffect ==
    [][\A c \in Sessions :
          (sock[c] = "open" /\ RecvFrom(c, ServerFrames))
          => /\ UNCHANGED <<clients, alias, out, ret>>
             /\ pc'[c] = "recv"
             /\ Active(c)']_vars

\* Every session has read on through frames that changed nothing: all are
\* registered and at their next read, under the empty alias, and no stream
\* carries a forwarded message.
C20_Witness ==
    /\ nframes = MaxFrames
    /\ clients = Sessions
    /\ \A c \in Sessions :
          /\ pc[c] = "recv"
          /\ ret[c] = "hs"
          /\ alias[c] = ""
          /\ \A k \in DOMAIN out[c] : out[c][k].message_type # CLIENT_TO_CLIENT

\* The entries of a directory payload.
PayloadContent(l) == {l[k] : k \in DOMAIN l}

\* C12: the payload of every directory that is sent equals what the registry
\* held, members and aliases, at one instant of the update_clients call that
\* sends it.
C12_DirectoryIsOneInstant ==
    [][\A c \in Conns :
          (pc[c] = "uc_send" /\ pc'[c] = "uc_iter")
          => PayloadContent(client_list[c]) \in during[c]]_vars

\* C17: Message(...) raises exactly for a ClientToClient type whose
\* destination and origin are both None or empty; otherwise it yields the
\* message with the four attributes as given.
C17_ValidationExact ==
    res.op = "init"
    => /\ res.err # "ok" <=> /\ arg.type = CLIENT_TO_CLIENT
                              /\ arg.destination \in {None, ""}
                              /\ arg.from_ \in {None, ""}
       /\ res.err = "ok" => res.msg = Message(arg.type, arg.message,
                                             arg.destination, arg.from_)

\* A ClientToClient construction with an empty destination and no origin has
\* been refused.
C17_Witness ==
    /\ res.op = "init"
    /\ arg.type = CLIENT_TO_CLIENT
    /\ arg.destination = ""
    /\ arg.from_ = None
    /\ res.err = "ValueError"

\* C18: decode(dump(m)) of a message m that was built succeeds and has m's
\* type, body, destination and origin.
C18_RoundTrip ==
    res.op = "decode"
    => /\ res.err = "ok"
       /\ res.msg.message_type = arg.type
       /\ res.msg.message = arg.message
       /\ res.msg.destination = arg.destination
       /\ res.msg.from_ = arg.from_

\* A ClientToClient message that carries an origin and no destination has
\* made the round trip.
C18_Witness ==
    /\ res.op = "decode"
    /\ res.err = "ok"
    /\ arg.type = CLIENT_TO_CLIENT
    /\ arg.destination = None
    /\ arg.from_ = UuidOf(1)

\* C21: a session reads its next frame only when everything the frame before
\* set off is over (no message in routing, no send or registry loop under
\* way, no broadcast running), and never once it has left its read loop.
C21_ReadsInOrder ==
    [][\A c \in Sessions :
          (RecvFrom(c, Frames) /\ nframes' = nframes + 1)
          => /\ cur[c] = NoMessage
             /\ sending[c] = 0
             /\ ~it[c].active
             /\ client_list[c] = <<>>
             /\ pc[c] \notin UcPcs
             /\ ~Departed(c)
             /\ ~Exited(c)]_vars

\* The only connection has had its alias update broadcast and then its
\* direct message to itself forwarded, in this order, and is at its next
\* read.
C21_Witness ==
    /\ pc[1] = "recv"
    /\ \A x \in Sessions \ {1} : pc[x] = "idle"
    /\ nframes = 2
    /\ Len(out[1]) = 4
    /\ ListsAlias(out[1][3], UuidOf(1), "bob")
    /\ out[1][4].message_type = CLIENT_TO_CLIENT

\* C22: the read of a ServerToClient, DirectoryUpdate or AssignedId frame by
\* an Active session leaves the registry, every alias and every outbound
\* stream as they were, starts no broadcast, and leaves the session at its
\* next read.
C22_UnhandledTypeIgnored ==
    [][\A c \in Sessions :
          (sock[c] = "open" /\ RecvFrom(c, UnhandledFrames))
          => /\ UNCHANGED <<clients, alias, out, ret, client_list, it, sending>>
             /\ pc'[c] = "recv"
             /\ \A x \in Sessions : pc'[x] \in UcPcs => pc[x] \in UcPcs
             /\ Active(c)']_vars

\* All frames have been read and none was an alias update: every session is
\* registered and at its next read, under the empty alias, and no broadcast
\* has been started from a read loop.
C22_Witness ==
    /\ nframes = MaxFrames
    /\ clients = Sessions
    /\ \A c \in Sessions :
          /\ pc[c] = "recv"
          /\ sock[c] = "open"
          /\ ret[c] = "hs"
          /\ alias[c] = ""
          /\ Len(out[c]) <= NumSessions + 1

====
